---- MODULE Spec2Model ----
(***************************************************************************)
(* Model of src/index.js: the dispatch loop loopDeEnvio, the phone-number  *)
(* normaliser gerarNumerosAlternativos and the two delay helpers.          *)
(*                                                                         *)
(* Strings that the code inspects character by character (telefone, the    *)
(* candidate numbers) are sequences of one-character strings.  Strings the *)
(* code only stores or compares (mensagem, data_envio) are atomic.         *)
(***************************************************************************)
EXTENDS Integers, Sequences, FiniteSets, TLC

\* ------------------------------------------------------------------ bounds
NumContacts == 2        \* rows of the contacts table
MaxFetchErrors == 2     \* longest run of consecutive failed fetches explored
MaxPhoneLen == 11       \* longest phone string given to the normaliser alone
RandDen == 4            \* Math.random() is drawn from {0/RandDen .. (RandDen-1)/RandDen}
RandGrid == 40002       \* the same, finer, for delayAleatorio alone

\* --------------------------------------------------------------- constants
NULL == "null"
NOW == "now"            \* new Date().toISOString(): some non-null timestamp
ErrMsg == "Erro: número inválido ou não encontrado no WhatsApp"
Captions == {"legendaA", "legendaB"}   \* possible contents of conteudo/mensagem.txt
BackoffMs == 10000
IdleMs == 30000
MinLen == 10
DelayMin == 10000
DelayMax == 30000

Digits == {"0", "1", "2", "3", "4", "5", "6", "7", "8", "9"}

\* A telefone value as the store hands it over: a string, or not a string
\* (a NULL column), on which .replace is not callable.
Str(chars) == [str |-> TRUE, chars |-> chars]
NotAString == [str |-> FALSE, chars |-> <<>>]

ValidPhone == <<"1", "1", " ", "9", "8", "7", "6", "5", "-", "4", "3", "2", "1">>
ShortPhone == <<"1", "1", "-", "9", "8", "7", "6">>

Ids == 1..NumContacts

\* ------------------------------------------------------------------- state
VARIABLES
  store,      \* the contacts table: id -> [telefone, status, data_envio, mensagem]
  pc,         \* position of loopDeEnvio
  contatos,   \* rows returned by the last fetch
  legenda,    \* caption loaded for the current batch
  i,          \* index of the contact being processed in contatos
  tentativas, \* candidate numbers of the current contact
  j,          \* index of the candidate being tried
  enviado,    \* the enviado flag of the current contact
  waitMs,     \* duration of the pending setTimeout
  waitKind,   \* which delay is pending: "backoff", "idle", "pacing", "none"
  fetchErrors,\* consecutive failed fetches
  thrown,     \* where an exception left loopDeEnvio: "none", "load", "contact"
  passLog,    \* calls made for the current contact, in order
  batchLog,   \* start/end of each contact's processing since the last fetch
  loads,      \* payload loads since the last fetch
  recorded,   \* ids for which an outcome write has been issued
  repeated,   \* ids dispatched or written again after an outcome write
  telIn,      \* normaliser alone: the phone string under construction
  outs,       \* normaliser alone: results of the calls made on telIn
  ownSent,    \* ids this process (before or after a restart) has sent the payload to
  unmarked,   \* ids sent to by this process with no outcome write issued since
  crashDup,   \* ids sent to again by this process while still unmarked
  killedIds,  \* ids whose processing was cut by the process being killed
  peerBatch,  \* second instance: ids of its fetched batch not yet processed
  peerSent,   \* second instance: id it has sent to and not yet marked, or 0
  peerSentIds \* ids the second instance has sent the payload to

vars == <<store, pc, contatos, legenda, i, tentativas, j, enviado, waitMs,
          waitKind, fetchErrors, thrown, passLog, batchLog, loads, recorded,
          repeated, telIn, outs, ownSent, unmarked, crashDup, killedIds,
          peerBatch, peerSent, peerSentIds>>

\* what the sends of this process leave behind
sendVars == <<ownSent, unmarked, crashDup>>

\* the process being killed, and the second instance
sharedVars == <<killedIds, peerBatch, peerSent, peerSentIds>>

loopVars == <<store, pc, contatos, legenda, i, tentativas, j, enviado, waitMs,
              waitKind, fetchErrors, thrown, passLog, batchLog, loads, recorded,
              repeated>>

\* ------------------------------------------------- gerarNumerosAlternativos
IsDigit(c) == c \in Digits

\* mutant: the non-digit characters are not removed
StripNonDigits_Kept(s) == s

\* telefone.replace(/\D/g, '')
StripNonDigits(s) == SelectSeq(s, IsDigit)

\* corpo.startsWith('9')
StartsWith9(s) == Len(s) >= 1 /\ s[1] = "9"

\* s.slice(k): the characters from 0-based position k on
Slice(s, k) == SubSeq(s, k + 1, Len(s))

\* mutant: a short number is tried as it is instead of being given up
gerarNumerosAlternativos_ShortKept(telefone) ==
  LET limpo == StripNonDigits(telefone)
      ddd   == SubSeq(limpo, 1, 2)
      corpo == Slice(limpo, 2)
      com9  == IF StartsWith9(corpo) THEN corpo ELSE <<"9">> \o corpo
      sem9  == IF StartsWith9(corpo) THEN Slice(corpo, 1) ELSE corpo
  IN  IF Len(limpo) < MinLen THEN << <<"5", "5">> \o limpo >>
      ELSE << <<"5", "5">> \o ddd \o sem9, <<"5", "5">> \o ddd \o com9 >>

\* mutant: the two forms are returned in the other order
gerarNumerosAlternativos_Swapped(telefone) ==
  LET limpo == StripNonDigits(telefone)
      ddd   == SubSeq(limpo, 1, 2)
      corpo == Slice(limpo, 2)
      com9  == IF StartsWith9(corpo) THEN corpo ELSE <<"9">> \o corpo
      sem9  == IF StartsWith9(corpo) THEN Slice(corpo, 1) ELSE corpo
  IN  IF Len(limpo) < MinLen THEN <<>>
      ELSE << <<"5", "5">> \o ddd \o com9, <<"5", "5">> \o ddd \o sem9 >>

gerarNumerosAlternativos(telefone) ==
  LET limpo == StripNonDigits(telefone)
      ddd   == SubSeq(limpo, 1, 2)
      corpo == Slice(limpo, 2)
      com9  == IF StartsWith9(corpo) THEN corpo ELSE <<"9">> \o corpo
      sem9  == IF StartsWith9(corpo) THEN Slice(corpo, 1) ELSE corpo
  IN  IF Len(limpo) < MinLen THEN <<>>
      ELSE << <<"5", "5">> \o ddd \o sem9, <<"5", "5">> \o ddd \o com9 >>

\* ------------------------------------------------------------ delay helpers
\* mutant: Math.round in place of Math.floor
tempo_Rounded(num, den) ==
  ((2 * num * (DelayMax - DelayMin + 1) + den) \div (2 * den)) + DelayMin

\* line 158: Math.floor(Math.random() * (30000 - 10000 + 1)) + 10000, with
\* Math.random() = num/den
tempo(num, den) == ((num * (DelayMax - DelayMin + 1)) \div den) + DelayMin

\* lines 156-161, with Math.random() = n/RandDen
delayAleatorio(n) == tempo(n, RandDen)

\* ------------------------------------------------------------------- store
\* mutant: the filter on status is missing
Pending_IgnoresStatus(row) == row.data_envio = NULL

\* .eq('status', true).is('data_envio', null)
Pending(row) == row.status = TRUE /\ row.data_envio = NULL

PendingIds == {id \in Ids : Pending(store[id])}

\* select('*'): the row with its id
RowOf(id) == [id |-> id, telefone |-> store[id].telefone, status |-> store[id].status,
              data_envio |-> store[id].data_envio, mensagem |-> store[id].mensagem]

\* the orders in which the store may return a set of rows
Orders(S) == {f \in [1..Cardinality(S) -> S] : \A a, b \in 1..Cardinality(S) : a # b => f[a] # f[b]}

\* mutant: the .eq('id', ...) filter is missing, every row is updated
Updated_Unfiltered(id, msg) ==
  [k \in Ids |-> [store[k] EXCEPT !.data_envio = NOW, !.mensagem = msg]]

\* .update({data_envio, mensagem}).eq('id', id), when the store applies it
Updated(id, msg) == [store EXCEPT ![id].data_envio = NOW, ![id].mensagem = msg]

\* rows the table may hold when the loop starts
SampleRows ==
  { [telefone |-> Str(ValidPhone), status |-> TRUE,  data_envio |-> NULL, mensagem |-> NULL],
    [telefone |-> Str(ShortPhone), status |-> TRUE,  data_envio |-> NULL, mensagem |-> NULL],
    [telefone |-> NotAString,      status |-> TRUE,  data_envio |-> NULL, mensagem |-> NULL],
    [telefone |-> Str(ValidPhone), status |-> FALSE, data_envio |-> NULL, mensagem |-> NULL],
    [telefone |-> Str(ValidPhone), status |-> TRUE,  data_envio |-> NOW,  mensagem |-> "legendaA"] }

\* ------------------------------------------------------------------- loop
Contato == contatos[i]

\* the next candidate of the for..of over tentativas, or the end of that loop
AfterCandidate == IF j + 1 > Len(tentativas) THEN "after" ELSE "validate"

\* the for..of over contatos: the next contact, or back to the top of while(true)
AfterContact == IF i < Len(contatos) THEN "contact" ELSE "fetch"

NoteWrite(id) ==
  /\ recorded' = recorded \cup {id}
  /\ repeated' = IF id \in recorded THEN repeated \cup {id} ELSE repeated

\* the recipient of contact id has received the payload from this process
NoteSend(id) ==
  /\ ownSent' = ownSent \cup {id}
  /\ unmarked' = unmarked \cup {id}
  /\ crashDup' = IF id \in unmarked THEN crashDup \cup {id} ELSE crashDup

Init ==
  /\ store \in [Ids -> SampleRows]
  /\ pc = "fetch"
  /\ contatos = <<>>
  /\ legenda = NULL
  /\ i = 0
  /\ tentativas = <<>>
  /\ j = 0
  /\ enviado = FALSE
  /\ waitMs = 0
  /\ waitKind = "none"
  /\ fetchErrors = 0
  /\ thrown = "none"
  /\ passLog = <<>>
  /\ batchLog = <<>>
  /\ loads = 0
  /\ recorded = {}
  /\ repeated = {}
  /\ telIn = <<>>
  /\ outs = <<>>
  /\ ownSent = {}
  /\ unmarked = {}
  /\ crashDup = {}
  /\ killedIds = {}
  /\ peerBatch = {}
  /\ peerSent = 0
  /\ peerSentIds = {}

\* mutant: the fetch is retried at once, without the wait
FetchError_NoWait ==
  /\ pc = "fetch"
  /\ fetchErrors < MaxFetchErrors
  /\ fetchErrors' = fetchErrors + 1
  /\ contatos' = <<>>
  /\ pc' = "fetch"
  /\ passLog' = <<>>
  /\ batchLog' = <<>>
  /\ loads' = 0
  /\ UNCHANGED <<store, legenda, i, tentativas, j, enviado, waitMs, waitKind, thrown,
                 recorded, repeated, telIn, outs, sendVars, sharedVars>>

\* lines 46-57: the fetch returns an error
FetchError ==
  /\ pc = "fetch"
  /\ fetchErrors < MaxFetchErrors
  /\ fetchErrors' = fetchErrors + 1
  /\ contatos' = <<>>
  /\ pc' = "wait"
  /\ waitMs' = BackoffMs
  /\ waitKind' = "backoff"
  /\ passLog' = <<>>
  /\ batchLog' = <<>>
  /\ loads' = 0
  /\ UNCHANGED <<store, legenda, i, tentativas, j, enviado, thrown, recorded, repeated, telIn, outs, sendVars, sharedVars>>

\* mutant: the fetch stamps the rows it returns, taking them out of later fetches
FetchOk_ClaimsRows ==
  /\ pc = "fetch"
  /\ \E order \in Orders(PendingIds) :
       contatos' = [k \in 1..Cardinality(PendingIds) |-> RowOf(order[k])]
  /\ store' = [id \in Ids |-> IF id \in PendingIds
                               THEN [store[id] EXCEPT !.data_envio = NOW]
                               ELSE store[id]]
  /\ fetchErrors' = 0
  /\ passLog' = <<>>
  /\ batchLog' = <<>>
  /\ loads' = 0
  /\ IF Len(contatos') = 0
       THEN /\ pc' = "wait"
            /\ waitMs' = IdleMs
            /\ waitKind' = "idle"
       ELSE /\ pc' = "load"
            /\ UNCHANGED <<waitMs, waitKind>>
  /\ UNCHANGED <<legenda, i, tentativas, j, enviado, thrown, recorded, repeated, telIn, outs, sendVars, sharedVars>>

\* mutant: the payload is loaded before the result is tested for emptiness
FetchOk_LoadsFirst ==
  /\ pc = "fetch"
  /\ \E order \in Orders(PendingIds) :
       contatos' = [k \in 1..Cardinality(PendingIds) |-> RowOf(order[k])]
  /\ fetchErrors' = 0
  /\ passLog' = <<>>
  /\ batchLog' = <<>>
  /\ IF Len(contatos') = 0
       THEN /\ pc' = "wait"
            /\ waitMs' = IdleMs
            /\ waitKind' = "idle"
            /\ loads' = 1
       ELSE /\ pc' = "load"
            /\ loads' = 0
            /\ UNCHANGED <<waitMs, waitKind>>
  /\ UNCHANGED <<store, legenda, i, tentativas, j, enviado, thrown, recorded, repeated, telIn, outs, sendVars, sharedVars>>

\* lines 46-64: the fetch returns the pending rows, in some order
FetchOk ==
  /\ pc = "fetch"
  /\ \E order \in Orders(PendingIds) :
       contatos' = [k \in 1..Cardinality(PendingIds) |-> RowOf(order[k])]
  /\ fetchErrors' = 0
  /\ passLog' = <<>>
  /\ batchLog' = <<>>
  /\ loads' = 0
  /\ IF Len(contatos') = 0
       THEN /\ pc' = "wait"
            /\ waitMs' = IdleMs
            /\ waitKind' = "idle"
       ELSE /\ pc' = "load"
            /\ UNCHANGED <<waitMs, waitKind>>
  /\ UNCHANGED <<store, legenda, i, tentativas, j, enviado, thrown, recorded, repeated, telIn, outs, sendVars, sharedVars>>

\* lines 66-70: the payload and the caption are read from disk
Load ==
  /\ pc = "load"
  /\ \E res \in {"ok", "throw"} :
       IF res = "ok"
         THEN /\ \E cap \in Captions : legenda' = cap
              /\ loads' = loads + 1
              /\ i' = 1
              /\ pc' = "contact"
              /\ UNCHANGED thrown
         ELSE /\ pc' = "crashed"
              /\ thrown' = "load"
              /\ UNCHANGED <<legenda, loads, i>>
  /\ UNCHANGED <<store, contatos, tentativas, j, enviado, waitMs, waitKind, fetchErrors,
                 passLog, batchLog, recorded, repeated, telIn, outs, sendVars, sharedVars>>

\* mutant: the caption is read again for every contact
StartContact_Reloads ==
  /\ pc = "contact"
  /\ batchLog' = Append(batchLog, [id |-> Contato.id, ev |-> "start"])
  /\ passLog' = <<>>
  /\ repeated' = IF Contato.id \in recorded THEN repeated \cup {Contato.id} ELSE repeated
  /\ \E cap \in Captions : legenda' = cap
  /\ loads' = loads + 1
  /\ IF Contato.telefone.str
       THEN /\ tentativas' = gerarNumerosAlternativos(Contato.telefone.chars)
            /\ enviado' = FALSE
            /\ j' = 1
            /\ pc' = IF Len(tentativas') = 0 THEN "after" ELSE "validate"
            /\ UNCHANGED thrown
       ELSE /\ pc' = "crashed"
            /\ thrown' = "contact"
            /\ UNCHANGED <<tentativas, enviado, j>>
  /\ UNCHANGED <<store, contatos, i, waitMs, waitKind, fetchErrors,
                 recorded, telIn, outs, sendVars, sharedVars>>

\* lines 73-76: the head of one contact's processing
StartContact ==
  /\ pc = "contact"
  /\ batchLog' = Append(batchLog, [id |-> Contato.id, ev |-> "start"])
  /\ passLog' = <<>>
  /\ repeated' = IF Contato.id \in recorded THEN repeated \cup {Contato.id} ELSE repeated
  /\ IF Contato.telefone.str
       THEN /\ tentativas' = gerarNumerosAlternativos(Contato.telefone.chars)
            /\ enviado' = FALSE
            /\ j' = 1
            /\ pc' = IF Len(tentativas') = 0 THEN "after" ELSE "validate"
            /\ UNCHANGED thrown
       ELSE /\ pc' = "crashed"
            /\ thrown' = "contact"
            /\ UNCHANGED <<tentativas, enviado, j>>
  /\ UNCHANGED <<store, contatos, legenda, i, waitMs, waitKind, fetchErrors, loads,
                 recorded, telIn, outs, sendVars, sharedVars>>

\* mutant: the test of valido is missing, a falsy answer goes on to the send
Validate_Unchecked ==
  /\ pc = "validate"
  /\ \E res \in {"truthy", "falsy", "throw"} :
       /\ passLog' = Append(passLog, [op |-> "validate", id |-> Contato.id,
                                      num |-> tentativas[j], msg |-> NULL, res |-> res])
       /\ IF res # "throw"
            THEN pc' = "send" /\ UNCHANGED j
            ELSE pc' = AfterCandidate /\ j' = j + 1
  /\ UNCHANGED <<store, contatos, legenda, i, tentativas, enviado, waitMs, waitKind,
                 fetchErrors, thrown, batchLog, loads, recorded, repeated, telIn, outs, sendVars, sharedVars>>

\* lines 82-83 (and 102-105 when getNumberId throws)
Validate ==
  /\ pc = "validate"
  /\ \E res \in {"truthy", "falsy", "throw"} :
       /\ passLog' = Append(passLog, [op |-> "validate", id |-> Contato.id,
                                      num |-> tentativas[j], msg |-> NULL, res |-> res])
       /\ IF res = "truthy"
            THEN pc' = "send" /\ UNCHANGED j
            ELSE pc' = AfterCandidate /\ j' = j + 1
  /\ UNCHANGED <<store, contatos, legenda, i, tentativas, enviado, waitMs, waitKind,
                 fetchErrors, thrown, batchLog, loads, recorded, repeated, telIn, outs, sendVars, sharedVars>>

\* mutant: a failed send is tried once more on the same candidate
Send_RetriesCandidate ==
  /\ pc = "send"
  /\ \E res \in {"ok", "throw"} :
       /\ passLog' = Append(passLog, [op |-> "send", id |-> Contato.id,
                                      num |-> tentativas[j], msg |-> legenda, res |-> res])
       /\ IF res = "ok"
            THEN /\ pc' = "mark"
                 /\ NoteSend(Contato.id)
                 /\ UNCHANGED j
            ELSE /\ pc' = IF \E a \in 1..Len(passLog) :
                                passLog[a].op = "send" /\ passLog[a].num = tentativas[j]
                             THEN AfterCandidate ELSE "send"
                 /\ j' = IF pc' = "send" THEN j ELSE j + 1
                 /\ UNCHANGED sendVars
  /\ UNCHANGED <<store, contatos, legenda, i, tentativas, enviado, waitMs, waitKind,
                 fetchErrors, thrown, batchLog, loads, recorded, repeated, telIn, outs, sharedVars>>

\* lines 86-89 (and 102-105 when sendMessage throws)
Send ==
  /\ pc = "send"
  /\ \E res \in {"ok", "throw"} :
       /\ passLog' = Append(passLog, [op |-> "send", id |-> Contato.id,
                                      num |-> tentativas[j], msg |-> legenda, res |-> res])
       /\ IF res = "ok"
            THEN /\ pc' = "mark"
                 /\ NoteSend(Contato.id)
                 /\ UNCHANGED j
            ELSE /\ pc' = AfterCandidate
                 /\ j' = j + 1
                 /\ UNCHANGED sendVars
  /\ UNCHANGED <<store, contatos, legenda, i, tentativas, enviado, waitMs, waitKind,
                 fetchErrors, thrown, batchLog, loads, recorded, repeated, telIn, outs, sharedVars>>

\* lines 92-101 (and 102-105 when the update throws): the success write.
\* "ok": applied; "error": the store answers {error}, which the code does not
\* read; "throw": the awaited update rejects.
MarkSent ==
  /\ pc = "mark"
  /\ \E res \in {"ok", "error", "throw"} :
       /\ passLog' = Append(passLog, [op |-> "write", id |-> Contato.id,
                                      num |-> tentativas[j], msg |-> legenda, res |-> res])
       /\ store' = IF res = "ok" THEN Updated(Contato.id, legenda) ELSE store
       /\ IF res = "throw"
            THEN pc' = AfterCandidate /\ j' = j + 1 /\ UNCHANGED enviado
            ELSE pc' = "after" /\ enviado' = TRUE /\ UNCHANGED j
  /\ NoteWrite(Contato.id)
  /\ unmarked' = unmarked \ {Contato.id}
  /\ UNCHANGED <<contatos, legenda, i, tentativas, waitMs, waitKind, fetchErrors, thrown,
                 batchLog, loads, telIn, outs, ownSent, crashDup, sharedVars>>

\* mutant: the failure write carries the caption instead of the diagnostic
MarkFailed_WritesCaption ==
  /\ pc = "after"
  /\ ~enviado
  /\ \E res \in {"ok", "error", "throw"} :
       /\ passLog' = Append(passLog, [op |-> "write", id |-> Contato.id,
                                      num |-> <<>>, msg |-> legenda, res |-> res])
       /\ store' = IF res = "ok" THEN Updated(Contato.id, legenda) ELSE store
       /\ IF res = "throw"
            THEN pc' = "crashed" /\ thrown' = "contact"
            ELSE pc' = "delay" /\ UNCHANGED thrown
  /\ NoteWrite(Contato.id)
  /\ UNCHANGED <<contatos, legenda, i, tentativas, j, enviado, waitMs, waitKind,
                 fetchErrors, batchLog, loads, telIn, outs, sendVars, sharedVars>>

\* mutant: the failure branch ends with continue, skipping the pacing delay
MarkFailed_SkipsDelay ==
  /\ pc = "after"
  /\ ~enviado
  /\ \E res \in {"ok", "error", "throw"} :
       /\ passLog' = Append(passLog, [op |-> "write", id |-> Contato.id,
                                      num |-> <<>>, msg |-> ErrMsg, res |-> res])
       /\ store' = IF res = "ok" THEN Updated(Contato.id, ErrMsg) ELSE store
       /\ IF res = "throw"
            THEN pc' = "crashed" /\ thrown' = "contact" /\ UNCHANGED i
            ELSE /\ pc' = AfterContact
                 /\ i' = IF i < Len(contatos) THEN i + 1 ELSE i
                 /\ UNCHANGED thrown
  /\ NoteWrite(Contato.id)
  /\ UNCHANGED <<contatos, legenda, tentativas, j, enviado, waitMs, waitKind,
                 fetchErrors, batchLog, loads, telIn, outs, sendVars, sharedVars>>

\* lines 109-120: the failure write, when no candidate was sent to
MarkFailed ==
  /\ pc = "after"
  /\ ~enviado
  /\ \E res \in {"ok", "error", "throw"} :
       /\ passLog' = Append(passLog, [op |-> "write", id |-> Contato.id,
                                      num |-> <<>>, msg |-> ErrMsg, res |-> res])
       /\ store' = IF res = "ok" THEN Updated(Contato.id, ErrMsg) ELSE store
       /\ IF res = "throw"
            THEN pc' = "crashed" /\ thrown' = "contact"
            ELSE pc' = "delay" /\ UNCHANGED thrown
  /\ NoteWrite(Contato.id)
  /\ UNCHANGED <<contatos, legenda, i, tentativas, j, enviado, waitMs, waitKind,
                 fetchErrors, batchLog, loads, telIn, outs, sendVars, sharedVars>>

\* line 109 with enviado true: nothing to write
SkipMarkFailed ==
  /\ pc = "after"
  /\ enviado
  /\ pc' = "delay"
  /\ UNCHANGED <<store, contatos, legenda, i, tentativas, j, enviado, waitMs, waitKind,
                 fetchErrors, thrown, passLog, batchLog, loads, recorded, repeated,
                 telIn, outs, sendVars, sharedVars>>

\* mutant: the pacing delay is not awaited, the next contact starts at once
StartDelay_NotAwaited ==
  /\ pc = "delay"
  /\ pc' = AfterContact
  /\ i' = IF i < Len(contatos) THEN i + 1 ELSE i
  /\ passLog' = <<>>
  /\ UNCHANGED <<store, contatos, legenda, tentativas, j, enviado, waitMs, waitKind,
                 fetchErrors, thrown, batchLog, loads, recorded, repeated, telIn, outs, sendVars, sharedVars>>

\* line 123 and lines 156-161: the pacing delay is started
StartDelay ==
  /\ pc = "delay"
  /\ \E n \in 0..(RandDen - 1) : waitMs' = delayAleatorio(n)
  /\ waitKind' = "pacing"
  /\ pc' = "wait"
  /\ UNCHANGED <<store, contatos, legenda, i, tentativas, j, enviado, fetchErrors, thrown,
                 passLog, batchLog, loads, recorded, repeated, telIn, outs, sendVars, sharedVars>>

\* lines 150-153: the timer fires and the loop resumes after its await
WaitDone ==
  /\ pc = "wait"
  /\ waitMs' = 0
  /\ waitKind' = "none"
  /\ IF waitKind = "pacing"
       THEN /\ batchLog' = Append(batchLog, [id |-> Contato.id, ev |-> "end"])
            /\ passLog' = <<>>
            /\ pc' = AfterContact
            /\ i' = IF i < Len(contatos) THEN i + 1 ELSE i
       ELSE /\ pc' = "fetch"
            /\ UNCHANGED <<batchLog, passLog, i>>
  /\ UNCHANGED <<store, contatos, legenda, tentativas, j, enviado, fetchErrors, thrown,
                 loads, recorded, repeated, telIn, outs, sendVars, sharedVars>>

Next ==
  \/ FetchError
  \/ FetchOk
  \/ Load
  \/ StartContact
  \/ Validate
  \/ Send
  \/ MarkSent
  \/ MarkFailed
  \/ SkipMarkFailed
  \/ StartDelay
  \/ WaitDone

Spec == Init /\ [][Next]_vars

\* ---------------------------- the store shared, and the process restarted
\* A contact is being processed when the process is killed.
MidContact == pc \in {"validate", "send", "mark", "after", "delay"}

\* The process is killed between a successful send and the outcome write (at
\* the await of line 92), at most once per contact, and started again: line
\* 164 runs anew, 'ready' fires (lines 35-39) and loopDeEnvio starts from its top
\* with fresh locals.  The store and what was already sent are all that remain.
KillAndRestart ==
  /\ pc = "mark"
  /\ Contato.id \notin killedIds
  /\ killedIds' = killedIds \cup {Contato.id}
  /\ pc' = "fetch"
  /\ contatos' = <<>>
  /\ legenda' = NULL
  /\ i' = 0
  /\ tentativas' = <<>>
  /\ j' = 0
  /\ enviado' = FALSE
  /\ waitMs' = 0
  /\ waitKind' = "none"
  /\ fetchErrors' = 0
  /\ thrown' = "none"
  /\ passLog' = <<>>
  /\ batchLog' = <<>>
  /\ loads' = 0
  /\ UNCHANGED <<store, recorded, repeated, telIn, outs, sendVars, peerBatch, peerSent,
                 peerSentIds>>

\* A second instance of the same program on the same store, reduced to what it
\* does to the store and to the recipients.  Lines 46-64: its fetch.
PeerFetch ==
  /\ pc # "norm"
  /\ peerBatch = {}
  /\ peerSent = 0
  /\ PendingIds # {}
  /\ peerBatch' = PendingIds
  /\ UNCHANGED <<loopVars, telIn, outs, sendVars, killedIds, peerSent, peerSentIds>>

\* lines 73-89 in the second instance: a contact of its batch is sent to
PeerSend ==
  /\ peerSent = 0
  /\ \E id \in peerBatch :
       /\ peerSent' = id
       /\ peerBatch' = peerBatch \ {id}
       /\ peerSentIds' = peerSentIds \cup {id}
  /\ UNCHANGED <<loopVars, telIn, outs, sendVars, killedIds>>

\* lines 92-98 in the second instance: its success write, applied
PeerMark ==
  /\ peerSent # 0
  /\ \E cap \in Captions : store' = Updated(peerSent, cap)
  /\ peerSent' = 0
  /\ UNCHANGED <<pc, contatos, legenda, i, tentativas, j, enviado, waitMs, waitKind,
                 fetchErrors, thrown, passLog, batchLog, loads, recorded, repeated,
                 telIn, outs, sendVars, killedIds, peerBatch, peerSentIds>>

\* two rows pending with a phone that has candidates, the others not eligible
InitShared ==
  /\ Init
  /\ \A id \in Ids : store[id].telefone = Str(ValidPhone)
  /\ \A id \in Ids : IF id <= 2 THEN Pending(store[id]) ELSE ~store[id].status

NextShared ==
  \/ Next
  \/ KillAndRestart
  \/ PeerFetch
  \/ PeerSend
  \/ PeerMark

SpecShared == InitShared /\ [][NextShared]_vars

\* ------------------------------------------------ the normaliser on its own
\* characters a phone string is built from: two digits and a separator
PhoneChars == {"9", "1", "-"}

InitNorm ==
  /\ store = [id \in Ids |-> [telefone |-> Str(ValidPhone), status |-> TRUE,
                              data_envio |-> NULL, mensagem |-> NULL]]
  /\ pc = "norm"
  /\ contatos = <<>>
  /\ legenda = NULL
  /\ i = 0
  /\ tentativas = <<>>
  /\ j = 0
  /\ enviado = FALSE
  /\ waitMs = 0
  /\ waitKind = "none"
  /\ fetchErrors = 0
  /\ thrown = "none"
  /\ passLog = <<>>
  /\ batchLog = <<>>
  /\ loads = 0
  /\ recorded = {}
  /\ repeated = {}
  /\ telIn = <<>>
  /\ outs = <<>>
  /\ ownSent = {}
  /\ unmarked = {}
  /\ crashDup = {}
  /\ killedIds = {}
  /\ peerBatch = {}
  /\ peerSent = 0
  /\ peerSentIds = {}

\* one more character of the phone string
TypeChar ==
  /\ pc = "norm"
  /\ outs = <<>>
  /\ Len(telIn) < MaxPhoneLen
  /\ \E c \in PhoneChars : telIn' = Append(telIn, c)
  /\ UNCHANGED <<loopVars, outs, sendVars, sharedVars>>

\* lines 129-147: a call of gerarNumerosAlternativos on the string (at most two)
CallNormalizer ==
  /\ pc = "norm"
  /\ Len(outs) < 2
  /\ outs' = Append(outs, gerarNumerosAlternativos(telIn))
  /\ UNCHANGED <<loopVars, telIn, sendVars, sharedVars>>

NextNorm ==
  \/ TypeChar
  \/ CallNormalizer

SpecNorm == InitNorm /\ [][NextNorm]_vars

\* ------------------------------------------------ delayAleatorio on its own
InitDelay ==
  /\ InitNorm
  /\ pc = "norm"

\* lines 156-161: one call, for one value of Math.random()
DrawDelay ==
  /\ pc = "norm"
  /\ waitMs = 0
  /\ waitKind = "none"
  /\ \E n \in 0..(RandGrid - 1) : waitMs' = tempo(n, RandGrid)
  /\ waitKind' = "pacing"
  /\ UNCHANGED <<store, pc, contatos, legenda, i, tentativas, j, enviado, fetchErrors,
                 thrown, passLog, batchLog, loads, recorded, repeated, telIn, outs,
                 sendVars, sharedVars>>

\* lines 150-153: the timer fires
DelayFired ==
  /\ pc = "norm"
  /\ waitKind = "pacing"
  /\ waitKind' = "none"
  /\ UNCHANGED <<store, pc, contatos, legenda, i, tentativas, j, enviado, waitMs,
                 fetchErrors, thrown, passLog, batchLog, loads, recorded, repeated,
                 telIn, outs, sendVars, sharedVars>>

NextDelay ==
  \/ DrawDelay
  \/ DelayFired

SpecDelay == InitDelay /\ [][NextDelay]_vars

\* =================================================================== claims
\* helpers over the logs
IsWrite(e) == e.op = "write"
WritesOf(log) == SelectSeq(log, IsWrite)
SendOkAt(log, a) == log[a].op = "send" /\ log[a].res = "ok"
SomeSendOk(log) == \E a \in 1..Len(log) : SendOkAt(log, a)
DigitCount(s) == Cardinality({k \in 1..Len(s) : s[k] \in Digits})

\* the processing of the current contact has reached its pacing delay
PassDone == pc = "delay" \/ (pc = "wait" /\ waitKind = "pacing")

\* C1: no exception leaves the processing of a contact, and every contact's
\* processing ends with an outcome write issued for its id.
C1_NoExceptionFromContact ==
  /\ thrown # "contact"
  /\ PassDone => \E a \in 1..Len(passLog) : IsWrite(passLog[a]) /\ passLog[a].id = Contato.id

\* C2: at most one outcome write is issued per contact id, and a contact for
\* which an outcome write was issued is never dispatched again.
C2_OutcomeOnce == repeated = {}

\* C3: the first candidate whose send succeeds wins: no validate and no send
\* follows it, and the pass records exactly one write, the success write with
\* the caption.
C3_FirstSendWins ==
  \A a \in 1..Len(passLog) :
    SendOkAt(passLog, a) =>
      /\ \A b \in (a + 1)..Len(passLog) : passLog[b].op = "write"
      /\ PassDone => WritesOf(passLog) = << [op |-> "write", id |-> Contato.id,
                                             num |-> passLog[a].num, msg |-> legenda,
                                             res |-> passLog[Len(passLog)].res] >>

\* C4: when the candidate loop ends with no successful send, the pass issues
\* exactly one write, for the contact's id, with the failure message.
C4_AllFailedIsFailure ==
  ( /\ PassDone \/ (pc = "crashed" /\ thrown = "contact" /\ Contato.telefone.str)
    /\ ~SomeSendOk(passLog) )
  => /\ Len(WritesOf(passLog)) = 1
     /\ passLog[Len(passLog)].op = "write"
     /\ passLog[Len(passLog)].id = Contato.id
     /\ passLog[Len(passLog)].msg = "Erro: número inválido ou não encontrado no WhatsApp"

C4_Witness ==
  /\ pc = "delay"
  /\ ~SomeSendOk(passLog)
  /\ \E a \in 1..Len(passLog) : passLog[a].op = "send" /\ passLog[a].res = "throw"
  /\ \E a \in 1..Len(passLog) : passLog[a].op = "validate" /\ passLog[a].res # "truthy"

\* C5: every contact of the batch, hence every contact validated, sent to or
\* written, was fetched with status = true and data_envio = null, and no
\* contact with status = false is dispatched.
C5_OnlyPendingDispatched ==
  /\ \A k \in 1..Len(contatos) :
       /\ contatos[k].status = TRUE
       /\ contatos[k].data_envio = "null"
       /\ store[contatos[k].id].status = TRUE
  /\ \A a \in 1..Len(passLog) : \E k \in 1..Len(contatos) : contatos[k].id = passLog[a].id
  /\ \A a \in 1..Len(batchLog) : \E k \in 1..Len(contatos) : contatos[k].id = batchLog[a].id

C5_Witness ==
  /\ \E id \in Ids : store[id].status = FALSE
  /\ pc = "delay"
  /\ \E a \in 1..Len(passLog) : SendOkAt(passLog, a)
  /\ Len(contatos) = 1

\* C6: a fetch error starts a wait of 10000 ms, whatever the number of errors
\* before it, and that wait ends in a new fetch with nothing validated, sent,
\* written or loaded in between.
C6_FetchErrorBackoff ==
  [][ /\ (pc = "fetch" /\ fetchErrors' = fetchErrors + 1)
         => (pc' = "wait" /\ waitKind' = "backoff" /\ waitMs' = 10000 /\ store' = store
             /\ passLog' = <<>> /\ batchLog' = <<>> /\ loads' = 0)
      /\ (pc = "wait" /\ waitKind = "backoff")
         => (pc' = "fetch" /\ store' = store /\ passLog' = <<>> /\ batchLog' = <<>>
             /\ loads' = 0 /\ recorded' = recorded) ]_vars

C6_Witness ==
  /\ pc = "wait"
  /\ waitKind = "backoff"
  /\ waitMs = 10000
  /\ fetchErrors >= 2
  /\ recorded # {}

\* C7: an empty fetch result starts a wait of 30000 ms, and that wait ends in
\* a new fetch with nothing validated, sent, written or loaded in between.
C7_EmptyFetchIdle ==
  [][ /\ (pc = "fetch" /\ fetchErrors' = 0 /\ contatos' = <<>>)
         => (pc' = "wait" /\ waitKind' = "idle" /\ waitMs' = 30000 /\ store' = store
             /\ passLog' = <<>> /\ batchLog' = <<>> /\ loads' = 0)
      /\ (pc = "wait" /\ waitKind = "idle")
         => (pc' = "fetch" /\ store' = store /\ passLog' = <<>> /\ batchLog' = <<>>
             /\ loads' = 0 /\ recorded' = recorded) ]_vars

C7_Witness ==
  /\ pc = "wait"
  /\ waitKind = "idle"
  /\ waitMs = 30000
  /\ recorded # {}

\* C8: a phone string with fewer than 10 digits has no candidates, whatever
\* other characters it holds.
C8_ShortPhoneNoCandidates ==
  \A k \in 1..Len(outs) : DigitCount(telIn) < 10 => outs[k] = <<>>

C8_Witness ==
  /\ Len(outs) >= 1
  /\ DigitCount(telIn) = 9
  /\ Len(telIn) >= 10
  /\ outs[1] = <<>>

\* C9: a phone string with at least 10 digits has exactly two candidates, the
\* form without the 9 first; both start with 55 and the area code, the second
\* is the first with one 9 inserted after the area code, and every call on the
\* same string returns the same list.
C9_TwoCandidatesInOrder ==
  \A k \in 1..Len(outs) :
    DigitCount(telIn) >= 10 =>
      LET r == outs[k]
          d == SelectSeq(telIn, LAMBDA c : c \in Digits)
      IN  /\ Len(r) = 2
          /\ SubSeq(r[1], 1, 4) = <<"5", "5", d[1], d[2]>>
          /\ SubSeq(r[2], 1, 4) = <<"5", "5", d[1], d[2]>>
          /\ r[2] = SubSeq(r[1], 1, 4) \o <<"9">> \o SubSeq(r[1], 5, Len(r[1]))
          /\ r = outs[1]

C9_Witness ==
  /\ Len(outs) = 2
  /\ DigitCount(telIn) = 10
  /\ Len(telIn) = 11
  /\ telIn[3] = "9"
  /\ Len(outs[1]) = 2

\* C10: the contacts of a batch are processed one at a time in fetch order:
\* the k-th contact starts only after the (k-1)-th has had its outcome write
\* and its pacing delay has completed, and every call belongs to the one
\* contact that is open.
C10_SequentialInFetchOrder ==
  /\ \A k \in 1..Len(batchLog) :
       /\ (k + 1) \div 2 <= Len(contatos)
       /\ batchLog[k].id = contatos[(k + 1) \div 2].id
       /\ batchLog[k].ev = IF k % 2 = 1 THEN "start" ELSE "end"
  /\ passLog # <<>> =>
       /\ Len(batchLog) % 2 = 1
       /\ \A a \in 1..Len(passLog) : passLog[a].id = batchLog[Len(batchLog)].id
  /\ (pc = "wait" /\ waitKind = "pacing") =>
       \E a \in 1..Len(passLog) : IsWrite(passLog[a]) /\ passLog[a].id = Contato.id

C10_Witness ==
  /\ Len(contatos) >= 2
  /\ Len(batchLog) = 3
  /\ pc = "delay"
  /\ Len(passLog) >= 2

\* C11: nothing but an applied outcome write changes a row, so a fetched
\* contact stays pending, and visible to every fetch, until it is marked: the
\* store holds no claim between fetch and mark.  (The duplicate sends this
\* allows are the witness.)
C11_NoClaimBetweenFetchAndMark ==
  [][ /\ store' # store =>
           \/ /\ pc \in {"mark", "after"}
              /\ Len(passLog') = Len(passLog) + 1
              /\ passLog'[Len(passLog')].op = "write"
              /\ passLog'[Len(passLog')].res = "ok"
           \/ peerSent # 0 /\ peerSent' = 0
      /\ \A id \in Ids :
           (Pending(store[id]) /\ ~Pending(store'[id])) =>
              \/ (MidContact /\ Contato.id = id)
              \/ peerSent = id ]_vars

\* one contact has the payload twice from the two instances, with this process
\* never killed while on it and never repeating it; another has it twice from
\* this process alone, killed between send and mark, with no write issued yet
C11_Witness ==
  \E a, b \in Ids :
    /\ a # b
    /\ a \in ownSent /\ a \in peerSentIds
    /\ a \notin killedIds /\ a \notin crashDup /\ a \notin repeated
    /\ b \in crashDup /\ b \in killedIds
    /\ b \notin peerSentIds /\ b \notin recorded
    /\ pc = "mark" /\ Contato.id = b

\* C12: a contact's processing is left, for the next contact or for the next
\* fetch, only through one pacing delay started after its outcome write; the
\* delay's end leads straight to the next contact, or after the last contact
\* straight to the fetch.
C12_OnePacingDelayPerContact ==
  [][ /\ (MidContact /\ pc' \in {"contact", "fetch", "load"}) => FALSE
      /\ (pc' = "wait" /\ waitKind' = "pacing" /\ pc # "wait") =>
            /\ pc = "delay"
            /\ \E a \in 1..Len(passLog) : IsWrite(passLog[a]) /\ passLog[a].id = Contato.id
      /\ (pc = "delay" /\ pc' # "delay") => (pc' = "wait" /\ waitKind' = "pacing")
      /\ (pc = "wait" /\ waitKind = "pacing" /\ pc' # "wait") =>
            /\ waitKind' = "none"
            /\ IF i < Len(contatos)
                 THEN pc' = "contact" /\ i' = i + 1
                 ELSE pc' = "fetch"
            /\ batchLog' = Append(batchLog, [id |-> contatos[i].id, ev |-> "end"]) ]_vars

C12_Witness ==
  /\ pc = "fetch"
  /\ Len(contatos) = 2
  /\ Len(batchLog) = 4
  /\ \E k \in 1..2 : contatos[k].telefone = Str(ShortPhone)
  /\ \E k \in 1..2 : contatos[k].telefone = Str(ValidPhone)
  /\ \E id \in Ids : store[id].mensagem \in Captions /\ id \in recorded

\* C13: the duration delayAleatorio chooses is within 10000..30000 for every
\* value of the random source in [0, 1).
C13_DelayInRange ==
  waitKind = "pacing" => (waitMs \in Int /\ waitMs >= 10000 /\ waitMs <= 30000)

C13_Witness ==
  /\ pc = "norm"
  /\ waitKind = "pacing"
  /\ waitMs = 30000

\* C14: every send is on the candidate whose validate, the call just before
\* it, answered truthy; a candidate whose validate answered falsy or threw
\* has no send in the pass.
C14_SendOnlyAfterValidate ==
  /\ \A a \in 1..Len(passLog) :
       passLog[a].op = "send" =>
         /\ a > 1
         /\ passLog[a - 1].op = "validate"
         /\ passLog[a - 1].res = "truthy"
         /\ passLog[a - 1].num = passLog[a].num
         /\ passLog[a - 1].id = passLog[a].id
  /\ \A a \in 1..Len(passLog) :
       (passLog[a].op = "validate" /\ passLog[a].res # "truthy") =>
         \A b \in 1..Len(passLog) : passLog[b].op = "send" => passLog[b].num # passLog[a].num

C14_Witness ==
  /\ Len(passLog) = 3
  /\ passLog[1].op = "validate" /\ passLog[1].res = "throw"
  /\ passLog[2].op = "validate" /\ passLog[2].res = "truthy"
  /\ passLog[3].op = "send" /\ passLog[3].num = passLog[2].num

\* the calls of one kind made in the pass, in order
OpsOf(log, op) == SelectSeq(log, LAMBDA e : e.op = op)

\* C15: in one pass the k-th validate is on the k-th candidate of the
\* normaliser, the sends are on candidates in increasing position, one each at
\* most, so there are at most two validates and two sends.
C15_NoCandidateRetried ==
  MidContact =>
    LET vs == OpsOf(passLog, "validate")
        ss == OpsOf(passLog, "send")
        cands == gerarNumerosAlternativos(Contato.telefone.chars)
    IN  /\ Len(vs) <= 2
        /\ Len(ss) <= 2
        /\ \A k \in 1..Len(vs) : k <= Len(cands) /\ vs[k].num = cands[k]
        /\ \A k \in 1..Len(ss) : \E c \in 1..Len(cands) : ss[k].num = cands[c]
        /\ \A k, l \in 1..Len(ss) : k < l => Len(ss[k].num) < Len(ss[l].num)

C15_Witness ==
  /\ pc = "after"
  /\ Len(OpsOf(passLog, "validate")) = 2
  /\ Len(OpsOf(passLog, "send")) = 2
  /\ \A a \in 1..Len(passLog) : passLog[a].op = "send" => passLog[a].res = "throw"

C17_NoContactAbandoned ==
  (pc = "crashed" /\ thrown = "contact") =>
     \A k \in 1..Len(contatos) : contatos[k].id \in recorded

\* C18: the caption is loaded once per non-empty batch, before its first
\* contact, and stays the same through the batch; every send and every
\* success write of the batch carries it.
C18_OneLoadPerBatch ==
  [][ /\ legenda' # legenda =>
           (pc = "load" /\ pc' = "contact" /\ i' = 1 /\ batchLog = <<>> /\ loads = 0)
      /\ loads' # loads =>
           \/ (pc = "load" /\ loads = 0 /\ loads' = 1)
           \/ (pc = "fetch" /\ loads' = 0)
      /\ pc' \in {"contact", "validate", "send", "mark", "after", "delay"} =>
           (loads' = 1 /\ legenda' \in Captions)
      /\ \A a \in 1..Len(passLog') :
           (passLog'[a].op = "send" \/ (passLog'[a].op = "write" /\ passLog'[a].num # <<>>))
              => passLog'[a].msg = legenda'
      /\ \A id \in Ids :
           (store'[id].mensagem # store[id].mensagem /\ pc = "mark")
              => store'[id].mensagem = legenda ]_vars

C18_Witness ==
  /\ pc = "after"
  /\ enviado
  /\ Len(batchLog) = 3
  /\ loads = 1
  /\ store[batchLog[1].id].mensagem = legenda
  /\ store[batchLog[3].id].mensagem = legenda
  /\ legenda = "legendaB"

\* C19: a step of the loop changes no telefone and no status; the only row it
\* may change is the one of the contact being processed, by setting its
\* data_envio to the current time and its mensagem to the caption or the
\* failure message.
C19_WriteTouchesOneRow ==
  [][ \A id \in Ids :
        /\ store'[id].telefone = store[id].telefone
        /\ store'[id].status = store[id].status
        /\ store'[id] # store[id] =>
             /\ pc \in {"mark", "after"}
             /\ contatos[i].id = id
             /\ store'[id].data_envio = "now"
             /\ store'[id].mensagem \in
                  {legenda, "Erro: número inválido ou não encontrado no WhatsApp"} ]_vars

C19_Witness ==
  \E a, b \in Ids :
    /\ a # b
    /\ a \in recorded
    /\ store[a].data_envio = "now"
    /\ b \notin recorded
    /\ Pending(store[b])
    /\ store[b].mensagem = "null"
    /\ Len(contatos) = 2
    /\ pc = "delay"

\* C20: once a send has succeeded in a pass, no other send is made in that
\* pass and every outcome write of the pass is the success write with the
\* caption, never the failure diagnostic.
C20_SendOkMeansSuccess ==
  \A a \in 1..Len(passLog) :
    SendOkAt(passLog, a) =>
      /\ \A b \in 1..Len(passLog) : (b # a) => passLog[b].op # "send" \/ b < a
      /\ \A b \in 1..Len(passLog) : IsWrite(passLog[b]) => passLog[b].msg = legenda
      /\ PassDone => \E b \in 1..Len(passLog) : IsWrite(passLog[b])

====
